---- MODULE Spec2Model ----
(***************************************************************************)
(* Model of drf_writable_nested/mixins.py: the nested create/update of a   *)
(* root entity with direct and reverse relations (NestedCreateMixin,       *)
(* NestedUpdateMixin) and the deferred uniqueness check                    *)
(* (UniqueFieldsMixin).                                                    *)
(*                                                                         *)
(* Python values are encoded as integers so that they can be compared:     *)
(*   None is 0 (every pk the code tests with `if pk:` is falsy at 0),      *)
(*   a key missing from a mapping is Absent (-1),                          *)
(*   str(n) is StrBase + n, so str(None) = "None" is StrBase itself.       *)
(***************************************************************************)
EXTENDS Integers, Sequences, FiniteSets, TLC

\* ------------------------------------------------------------------ bounds
\* Size of a payload: one per relation field present plus one per nested
\* mapping submitted under it.
MaxSize == 4
\* Number of nested mappings submitted under one plural relation field.
MaxLen == 2
\* Number of save calls made on one root (the second repeats the request).
MaxCalls == 2

\* ------------------------------------------------- encoding of Python values
None == 0
Absent == 0 - 1
StrBase == 100

Truthy(v) == v > 0

\* str(v): an int n becomes the string "n", a string stays itself,
\* None becomes the string "None".
PyStr(v) == IF v >= StrBase THEN v ELSE StrBase + v

\* The integer a string key denotes when the storage layer coerces it for a
\* pk lookup (pk__in = {...}); None is dropped by the lookup.
PkOfStr(s) == IF s >= StrBase THEN s - StrBase ELSE s

\* ------------------------------------------------------------------ schema
\* The root serializer's fields in declaration order (self.fields).
Fields == <<"ghost", "site", "account", "profile", "tags", "memos", "children">>
FieldSet == {Fields[i] : i \in 1..Len(Fields)}

\* field.source, as the name and, for a name that ends with it, the
\* postfix '_set'.
Source(f) ==
    CASE f = "children" -> <<"child", "_set">>
      [] f = "memos" -> <<"memo", "_set">>
      [] OTHER -> <<f>>

\* The names model_class._meta.get_field resolves, and those of them it
\* resolves to a ForeignObjectRel.
MetaFields == {"site", "account", "profile", "tags", "child"}
ForeignObjectRels == {"profile", "child"}
default_postfix == "_set"

\* Target table of each relation field (field.Meta.model).
Model(f) ==
    CASE f = "site" -> "Site"
      [] f = "account" -> "Account"
      [] f = "profile" -> "Profile"
      [] f = "children" -> "Child"
      [] f = "tags" -> "Tag"

Tables == {"Site", "Account", "Profile", "Child", "Tag"}

\* isinstance(field, ListSerializer): the payload value is a sequence.
IsList(f) == f \in {"children", "tags", "memos"}

\* The lookup with no second try: a name with the postfix is not resolved.
GetRelatedFieldNoRetry(f) ==
    LET src == Source(f)
        found == Len(src) = 1 /\ src[1] \in MetaFields
    IN [found |-> found, direct |-> found /\ src[1] \notin ForeignObjectRels]

\* _get_related_field: get_field(field.source) and, when that fails for a
\* source ending with '_set', get_field of the source without the postfix;
\* found is FALSE when FieldDoesNotExist is raised.  A ForeignObjectRel is
\* not direct, any other field is.
_get_related_field(f) ==
    LET src == Source(f)
        first == Len(src) = 1 /\ src[1] \in MetaFields
        second == /\ src[Len(src)] = default_postfix
                  /\ Len(src) = 2 /\ src[1] \in MetaFields
        found == first \/ second
    IN [found |-> found, direct |-> found /\ src[1] \notin ForeignObjectRels]

Direct(f) == _get_related_field(f).direct
one_to_one(f) == f \in {"profile", "account"}
many_to_one(f) == f \in {"site", "children"}
many_to_many(f) == f = "tags"

\* ----------------------------------------------------------------- storage
\* The primary keys of the rows each table holds before the first save.
InitPks == {1, 2, 3}
InitRows == Cardinality(InitPks)
PkSpace == 1..(InitRows + MaxCalls * MaxLen)
ParentSpace == 1..(InitRows + MaxCalls)

NoRow == [exists |-> FALSE, label |-> "", owner |-> None]
Row(l, o) == [exists |-> TRUE, label |-> l, owner |-> o]
NoParent == [exists |-> FALSE, name |-> "", site |-> None, account |-> None]

\* ---------------------------------------------------------------- payloads
\* A nested mapping: the keys 'pk' and 'id' (the pk attname) and one
\* attribute.  The empty label is the attribute value the nested serializer
\* rejects.
NodeKeys ==
    { [pk |-> Absent, id |-> Absent],
      [pk |-> None, id |-> Absent],
      [pk |-> 1, id |-> Absent],
      [pk |-> 3, id |-> Absent],
      [pk |-> Absent, id |-> 2] }
NodeLabels == {"b", ""}
Nodes == {[pk |-> k.pk, id |-> k.id, label |-> l] : k \in NodeKeys, l \in NodeLabels}
\* In a sequence a null 'pk' reads as a missing one (_get_related_pk); only
\* the one-to-one branch tells them apart.
ListNodes == {d \in Nodes : d.pk # None}

SeqsUpTo(S, n) == UNION {[1..m -> S] : m \in 0..n}

AbsentValue == [present |-> FALSE, null |-> FALSE, items |-> <<>>]
NullValue == [present |-> TRUE, null |-> TRUE, items |-> <<>>]
Value(items) == [present |-> TRUE, null |-> FALSE, items |-> items]

\* The mappings submitted under a field: one mapping only under a field
\* the engine never looks into.
NodesOf(f) ==
    IF ~_get_related_field(f).found
      THEN {[pk |-> Absent, id |-> Absent, label |-> "b"]}
    ELSE IF IsList(f) THEN ListNodes ELSE Nodes

\* The values a relation field can take in a payload of size at most n.
FieldValues(f, n) ==
    {AbsentValue}
    \cup (IF n >= 1 /\ ~IsList(f) THEN {NullValue} ELSE {})
    \cup (IF n >= 1 /\ IsList(f)
          THEN {Value(s) : s \in SeqsUpTo(NodesOf(f), IF n - 1 < MaxLen THEN n - 1 ELSE MaxLen)}
          ELSE {})
    \cup (IF n >= 2 /\ ~IsList(f) THEN {Value(<<d>>) : d \in NodesOf(f)} ELSE {})

SizeOf(v) == IF v.present THEN 1 + Len(v.items) ELSE 0

\* The fields of a root serializer that declares resolvable many-to-one,
\* reverse and many-to-many relations only.
BaseFields == {"site", "profile", "tags", "children"}

RECURSIVE PayloadsOver(_, _, _)
\* All assignments of values to Fields[i..] of total size at most n that
\* leave the fields outside scope absent, as sets of sequences of values.
PayloadsOver(scope, i, n) ==
    IF i > Len(Fields) THEN {<<>>}
    ELSE IF Fields[i] \notin scope
      THEN { <<AbsentValue>> \o rest : rest \in PayloadsOver(scope, i + 1, n) }
    ELSE UNION { { <<v>> \o rest :
                     v \in {x \in FieldValues(Fields[i], k) : SizeOf(x) = k},
                     rest \in PayloadsOver(scope, i + 1, n - k) }
                 : k \in 0..n }

PayloadsFrom(i, n) == PayloadsOver(BaseFields, i, n)

FieldIndex(f) == CHOOSE i \in 1..Len(Fields) : Fields[i] = f

PayloadSize(p) ==
    LET RECURSIVE Sum(_)
        Sum(i) == IF i > Len(Fields) THEN 0 ELSE SizeOf(p[Fields[i]]) + Sum(i + 1)
    IN Sum(1)

Payloads == { [f \in FieldSet |-> p[FieldIndex(f)]] : p \in PayloadsFrom(1, MaxSize) }

\* ------------------------------------------------------------------- state
VARIABLES
    parent,        \* root table: pk -> [exists, name, site]
    tbl,           \* related tables: table -> pk -> [exists, label, owner]
    m2m,           \* association table of Parent.tags: {<<parent pk, tag pk>>}
    deps,          \* entities holding a PROTECT reference to a Child
    nextpk,        \* table -> next primary key the storage layer assigns
    pc,            \* position in create()/update()
    op,            \* "create" or "update"
    instance,      \* pk of the root entity (None before create() persists it)
    request,       \* the payload as the caller submitted it
    initial,       \* self.initial_data: the payload, mutated by the engine
    validated,     \* validated_data / attrs: field -> Absent, None, Nested or a pk
    relations,     \* direct relations found by _extract_relations, in order
    reverse_relations, \* reverse relations found by _extract_relations, in order
    status,        \* outcome of the save call
    error,         \* detail of the error raised
    trace,         \* storage operations and steps of this call, in order
    calls,         \* number of save calls started
    resent,        \* how this call's payload relates to the call before
    pre,           \* storage as it was when this call started
    kwargs,        \* the keyword argument of save() named after a relation field
    partial,       \* self.partial of the root serializer
    unique_rows,   \* table of the model with a unique field: pk -> [exists, label]
    ucall          \* the last save of the serializer with UniqueFieldsMixin

vars == <<parent, tbl, m2m, deps, nextpk, pc, op, instance, request, initial,
          validated, relations, reverse_relations, status, error, trace,
          calls, resent, pre, kwargs, partial, unique_rows, ucall>>

nested == <<parent, tbl, m2m, deps, nextpk, pc, op, instance, request, initial,
            validated, relations, reverse_relations, status, error, trace,
            calls, resent, pre, kwargs, partial>>
unique == <<unique_rows, ucall>>
options == <<kwargs, partial>>

db == <<parent, tbl, m2m, deps, nextpk>>
\* The values of the unique field, and the saves one run makes.
ULabels == {"a", "b", "c"}
MaxUSaves == 2
URowSpace == 1..(2 + MaxUSaves)
NoURow == [exists |-> FALSE, label |-> ""]
NoUCall == [n |-> 0, op |-> "", instance |-> None, partial |-> FALSE,
            present |-> FALSE, label |-> "", status |-> "", field |-> "",
            code |-> "", before |-> [k \in URowSpace |-> NoURow]]

\* Marker in validated_data for a nested structure not yet resolved.
Nested == 0 - 2

\* save() called with no keyword argument.
NoKwargs == [field |-> "", kind |-> "none"]

NoError == [field |-> "", list |-> FALSE, details |-> <<>>, code |-> "",
            blockers |-> {}]

Init ==
    /\ parent = [k \in ParentSpace |->
                    CASE k = 1 -> [exists |-> TRUE, name |-> "p", site |-> 1,
                                   account |-> 1]
                      [] k = 2 -> [exists |-> TRUE, name |-> "o", site |-> None,
                                   account |-> 2]
                      [] k = 3 -> [exists |-> TRUE, name |-> "e", site |-> None,
                                   account |-> None]
                      [] OTHER -> NoParent]
    /\ tbl = [t \in Tables |-> [k \in PkSpace |->
                 IF k \notin InitPks THEN NoRow
                 ELSE CASE t = "Child" -> Row("a", IF k = 3 THEN 2 ELSE 1)
                        [] t = "Profile" -> Row("a", IF k = 3 THEN None ELSE k)
                        [] OTHER -> Row("a", None)]]
    /\ m2m = {<<1, 1>>, <<1, 2>>, <<2, 2>>, <<2, 3>>}
    /\ deps \in {{}, {[pk |-> 1, child |-> 2]}}
    /\ nextpk = [t \in Tables \cup {"Parent"} |-> InitRows + 1]
    /\ pc = "idle"
    /\ op = "update"
    /\ instance = None
    /\ request = [f \in FieldSet |-> AbsentValue]
    /\ initial = [f \in FieldSet |-> AbsentValue]
    /\ validated = [f \in FieldSet |-> Absent]
    /\ relations = <<>>
    /\ reverse_relations = <<>>
    /\ status = "idle"
    /\ error = NoError
    /\ trace = <<>>
    /\ calls = 0
    /\ resent = "first"
    /\ pre = [parent |-> parent, tbl |-> tbl, m2m |-> m2m]
    /\ kwargs = NoKwargs
    /\ partial = FALSE
    /\ unique_rows = [k \in URowSpace |->
                         CASE k = 1 -> [exists |-> TRUE, label |-> "a"]
                           [] k = 2 -> [exists |-> TRUE, label |-> "b"]
                           [] OTHER -> NoURow]
    /\ ucall = NoUCall

\* ------------------------------------------------------------ entry points
\* validated_data as the root serializer's validation leaves it: a relation
\* field is there exactly when the payload carries it, as None for null.
ValidatedOf(p) ==
    [f \in FieldSet |->
        IF ~p[f].present THEN Absent ELSE IF p[f].null THEN None ELSE Nested]

\* Marker in validated_data for a keyword argument of save() that is
\* neither None nor a mapping.
NotMapping == 0 - 3

\* ModelSerializer.save: validated_data = {**self.validated_data, **kwargs}.
\* The keyword argument named after a field replaces the field's value.
MergeKwargs(vd, kw) ==
    IF kw.kind = "none" THEN vd
    ELSE [vd EXCEPT ![kw.field] =
             CASE kw.kind = "mapping" -> Nested
               [] kw.kind = "null" -> None
               [] OTHER -> NotMapping]

\* BaseNestedModelSerializer.save(**kwargs) of a serializer bound to payload
\* p: _save_kwargs is set and create()/update() is entered.
BeginWith(o, inst, p, how, kw, part) ==
    /\ op' = o
    /\ instance' = inst
    /\ request' = p
    /\ initial' = p
    /\ validated' = MergeKwargs(ValidatedOf(p), kw)
    /\ kwargs' = kw
    /\ partial' = part
    /\ relations' = <<>>
    /\ reverse_relations' = <<>>
    /\ status' = "running"
    /\ error' = NoError
    /\ trace' = <<>>
    /\ calls' = calls + 1
    /\ resent' = how
    /\ pre' = [parent |-> parent, tbl |-> tbl, m2m |-> m2m]
    /\ pc' = "classify"
    /\ UNCHANGED <<db, unique>>

\* save() with no keyword argument on a serializer that is not partial.
Begin(o, inst, p, how) == BeginWith(o, inst, p, how, NoKwargs, FALSE)

\* serializer.save() on a new root: BaseNestedModelSerializer.save -> create.
SaveCreate ==
    /\ pc = "idle"
    /\ calls = 0
    /\ \E p \in Payloads : Begin("create", None, p, "first")

\* serializer.save() on an existing root: BaseNestedModelSerializer.save -> update.
SaveUpdate ==
    /\ pc = "idle"
    /\ calls = 0
    /\ \E inst \in {1, 3}, p \in Payloads : Begin("update", inst, p, "first")

\* The caller submits the request again as it was first submitted (an equal
\* payload, parsed anew), as an update of the root the call returned.
SaveAgain ==
    /\ pc = "done"
    /\ status = "ok"
    /\ calls < MaxCalls
    /\ Begin("update", instance, request, "copy")

\* The caller passes the very payload object of the call before, whose
\* mappings that call has written on, to an update of the root it returned.
SaveAgainSameObject ==
    /\ pc = "done"
    /\ status = "ok"
    /\ calls < MaxCalls
    /\ Begin("update", instance, initial, "object")

\* --------------------------------------------------------- _extract_relations
RECURSIVE ExtractFromNoSkip(_, _)
\* The loop with a plural field missing from validated_data taken for an
\* empty sequence instead of skipped.
ExtractFromNoSkip(i, acc) ==
    IF i > Len(Fields) THEN acc
    ELSE LET f == Fields[i] IN
         IF ~_get_related_field(f).found
           THEN ExtractFromNoSkip(i + 1, acc)
         ELSE IF IsList(f)
           THEN ExtractFromNoSkip(i + 1,
                  [acc EXCEPT !.rev = Append(@, f), !.vd[f] = Absent])
         ELSE IF acc.vd[f] = Absent \/ (acc.vd[f] = None /\ Direct(f))
           THEN ExtractFromNoSkip(i + 1, acc)
         ELSE IF Direct(f)
           THEN ExtractFromNoSkip(i + 1,
                  [acc EXCEPT !.rel = Append(@, f), !.vd[f] = Absent])
         ELSE ExtractFromNoSkip(i + 1,
                  [acc EXCEPT !.rev = Append(@, f), !.vd[f] = Absent])

RECURSIVE ExtractFrom(_, _)
\* The loop over self.fields from index i on; acc = [rel, rev, vd].
ExtractFrom(i, acc) ==
    IF i > Len(Fields) THEN acc
    ELSE LET f == Fields[i] IN
         IF ~_get_related_field(f).found
           \* except FieldDoesNotExist: continue
           THEN ExtractFrom(i + 1, acc)
         ELSE IF acc.vd[f] = Absent
           THEN ExtractFrom(i + 1, acc)
         ELSE IF IsList(f)
           THEN ExtractFrom(i + 1,
                  [acc EXCEPT !.rev = Append(@, f), !.vd[f] = Absent])
         ELSE IF acc.vd[f] = None /\ Direct(f)
           THEN ExtractFrom(i + 1, acc)
         ELSE IF Direct(f)
           THEN ExtractFrom(i + 1,
                  [acc EXCEPT !.rel = Append(@, f), !.vd[f] = Absent])
         ELSE ExtractFrom(i + 1,
                  [acc EXCEPT !.rev = Append(@, f), !.vd[f] = Absent])

_extract_relations(vd) == ExtractFrom(1, [rel |-> <<>>, rev |-> <<>>, vd |-> vd])

Step(name) == [ev |-> "step", rel |-> name, pk |-> None]
Event(name, f, k) == [ev |-> name, rel |-> f, pk |-> k]

Classify ==
    /\ pc = "classify"
    /\ LET r == _extract_relations(validated) IN
         /\ relations' = r.rel
         /\ reverse_relations' = r.rev
         /\ validated' = r.vd
    /\ trace' = Append(trace, Step("classify"))
    /\ pc' = "direct"
    /\ UNCHANGED <<db, op, instance, request, initial, status, error, calls, resent, pre, unique, options>>

\* ------------------------------------------------- the nested serializers
\* _get_related_pk: data.get('pk') or data.get(pk attname), as a string.
Get(v) == IF v = Absent THEN None ELSE v
\* The key read under the pk attname only, not under 'pk'.
GetRelatedPkAttnameOnly(data) ==
    IF Truthy(Get(data.id)) THEN PyStr(Get(data.id)) ELSE None

_get_related_pk(data) ==
    LET pk == IF Truthy(Get(data.pk)) THEN Get(data.pk) ELSE Get(data.id)
    IN IF Truthy(pk) THEN PyStr(pk) ELSE None

\* serializer.is_valid(raise_exception=True) of a nested serializer and the
\* detail of the ValidationError it raises; {} is the empty error object.
NoLabel == "<absent>"
IsValid(data) == data.label # "" /\ data.label # NoLabel
ErrorDetail(data) ==
    IF data.label = NoLabel THEN {<<"label", "required">>} ELSE {<<"label", "blank">>}

\* _get_serializer_for_field(field, instance=obj, data=data).is_valid():
\* the nested serializer is partial when the root serializer is and obj is
\* an entity, and then accepts a mapping that leaves the attribute out.
IsValidFor(data, obj) ==
    IF data.label = NoLabel THEN partial /\ obj # None ELSE data.label # ""
EmptyDetail == {}

\* The root entity's own attribute in every payload.
RootName == "n"

\* The parent a one-to-one Profile row refers to must be unique.
ProfileTaken(t, rows, owner, except) ==
    /\ t = "Profile"
    /\ owner # None
    /\ \E k \in PkSpace : k # except /\ rows[k].exists /\ rows[k].owner = owner

\* serializer.save(**save_kwargs) of a nested ModelSerializer on the store
\* st = [tbl, nextpk, trace]: update obj in place when there is one, else
\* create a row under a new primary key.  owner is the foreign key passed in
\* save_kwargs, Absent when none is passed.
SerializerSave(st, f, obj, data, owner) ==
    LET t == Model(f)
        k == IF obj # None THEN obj ELSE st.nextpk[t]
        o == IF owner # Absent THEN owner
             ELSE IF obj # None THEN st.tbl[t][obj].owner ELSE None
    IN IF ProfileTaken(t, st.tbl[t], o, obj)
         THEN [ok |-> FALSE, pk |-> None, st |-> st]
         ELSE [ok |-> TRUE, pk |-> k,
               st |-> [tbl |-> [st.tbl EXCEPT ![t][k] =
                                  Row(IF data.label = NoLabel THEN @.label
                                      ELSE data.label, o)],
                       nextpk |-> IF obj # None THEN st.nextpk
                                  ELSE [st.nextpk EXCEPT ![t] = @ + 1],
                       trace |-> Append(st.trace,
                                   Event(IF obj # None THEN "update" ELSE "create",
                                         f, k))]]

\* The per-relation save parameter taken as it is, whatever its type.
GetSaveKwargsUnchecked(f) == "ok"

\* _get_save_kwargs: _save_kwargs is defaultdict(dict, kwargs), so a field
\* with no keyword argument has the empty mapping; a value that is not a
\* dict raises TypeError.
_get_save_kwargs(f) ==
    IF kwargs.field = f /\ kwargs.kind \notin {"none", "mapping"}
      THEN "TypeError" ELSE "ok"

\* ------------------------------------------ update_or_create_direct_relations
\* getattr(instance, field_source, None) for a direct relation.
LinkedDirect(par, inst, f) == IF inst = None THEN None ELSE par[inst][f]

\* The linked entity taken as the update target whatever key was supplied.
DirectTargetLinked(f, data, linked) == linked

\* The supplied key compared with the linked entity's pk itself, not with
\* its string form.
DirectTargetUnconverted(f, data, linked) ==
    IF many_to_one(f) /\ _get_related_pk(data) # linked THEN None ELSE linked

\* For many-to-one fields the linked entity is the update target only if
\* the supplied pk matches it; otherwise a new entity is created.
DirectTarget(f, data, linked) ==
    LET data_pk == _get_related_pk(data)
        related_pk == PyStr(linked)
    IN IF many_to_one(f) /\ data_pk # related_pk THEN None ELSE linked

\* The nested error raised as it is, not keyed by the field name.
DirectErrorUnkeyed(f, detail) ==
    [field |-> "", list |-> FALSE, details |-> <<detail>>, code |-> "invalid",
     blockers |-> {}]

\* raise ValidationError({field_name: exc.detail})
DirectError(f, detail) ==
    [field |-> f, list |-> FALSE, details |-> <<detail>>, code |-> "invalid",
     blockers |-> {}]

RECURSIVE DirectFrom(_, _, _, _)
\* The loop over `relations` from index i on; acc = [st, attrs, status, error].
DirectFrom(i, rels, inst, acc) ==
    IF i > Len(rels) \/ acc.status # "running" THEN acc
    ELSE LET f == rels[i] IN
         IF initial[f].null
           \* data is None: data.get in _get_related_pk raises.
           THEN [acc EXCEPT !.status = "AttributeError"]
         ELSE
         LET data == initial[f].items[1]
             linked == LinkedDirect(parent, inst, f)
             related_instance == DirectTarget(f, data, linked)
         IN IF ~IsValidFor(data, related_instance)
              THEN [acc EXCEPT !.status = "ValidationError",
                               !.error = DirectError(f, ErrorDetail(data))]
            ELSE IF _get_save_kwargs(f) # "ok"
              THEN [acc EXCEPT !.status = "TypeError"]
              ELSE LET r == SerializerSave(acc.st, f, related_instance, data, Absent)
                   IN DirectFrom(i + 1, rels, inst,
                        [acc EXCEPT !.st = r.st, !.attrs[f] = r.pk])

update_or_create_direct_relations(attrs, rels, inst) ==
    DirectFrom(1, rels, inst,
        [st |-> [tbl |-> tbl, nextpk |-> nextpk,
                 trace |-> Append(trace, Step("direct"))],
         attrs |-> attrs, status |-> "running", error |-> NoError])

DirectRelations ==
    /\ pc = "direct"
    /\ LET r == update_or_create_direct_relations(validated, relations, instance) IN
         /\ tbl' = r.st.tbl
         /\ nextpk' = r.st.nextpk
         /\ trace' = r.st.trace
         /\ validated' = r.attrs
         /\ status' = r.status
         /\ error' = r.error
         /\ pc' = IF r.status = "running" THEN "root" ELSE "done"
    /\ UNCHANGED <<parent, m2m, deps, op, instance, request, initial, relations,
                   reverse_relations, calls, resent, pre, unique, options>>

\* ------------------------------------- ModelSerializer.create / .update of root
\* The relation fields classification left in validated_data because their
\* schema metadata was not found.
Leftover == {f \in FieldSet : ~_get_related_field(f).found /\ validated[f] # Absent}

\* super().create(validated_data): a new root row whose foreign keys are the
\* entities the direct step put into attrs.
RootCreate ==
    LET k == nextpk["Parent"] IN
    /\ parent' = [parent EXCEPT ![k] =
                     [exists |-> TRUE, name |-> RootName,
                      site |-> IF validated["site"] > 0 THEN validated["site"]
                               ELSE None,
                      account |-> IF validated["account"] > 0
                                    THEN validated["account"] ELSE None]]
    /\ nextpk' = [nextpk EXCEPT !["Parent"] = @ + 1]
    /\ instance' = k
    /\ trace' = Append(trace, Event("root", "", k))

\* super().update(instance, validated_data): every attribute left in
\* validated_data is assigned, a null direct relation included.
RootUpdate ==
    /\ parent' = [parent EXCEPT ![instance] =
                     [exists |-> TRUE, name |-> RootName,
                      site |-> IF validated["site"] = Absent THEN @.site
                               ELSE validated["site"],
                      account |-> IF validated["account"] = Absent THEN @.account
                                  ELSE validated["account"]]]
    /\ trace' = Append(trace, Event("root", "", instance))
    /\ UNCHANGED <<nextpk, instance>>

\* super().create / super().update given a nested value the engine left in
\* validated_data: the serializer below either refuses the nested write or
\* takes the value for a plain attribute, depending on what the model class
\* has under that name.
RootOutcomes == IF Leftover = {} THEN {"saved"} ELSE {"saved", "refused"}

RootRefused ==
    /\ status' = "RootError"
    /\ pc' = "done"
    /\ UNCHANGED <<parent, nextpk, instance, trace>>

PersistRoot ==
    /\ pc = "root"
    /\ \E outcome \in RootOutcomes :
          IF outcome = "refused" THEN RootRefused
          ELSE /\ IF op = "create" THEN RootCreate ELSE RootUpdate
               /\ pc' = "reverse"
               /\ UNCHANGED status
    /\ UNCHANGED <<tbl, m2m, deps, op, request, initial, validated, relations,
                   reverse_relations, error, calls, resent, pre, unique, options>>

\* ----------------------------------------- update_or_create_reverse_relations
\* Every stored entity of the relation's model, whatever parent it has.
LinkedAnyParent(rows, links, inst, f) ==
    IF many_to_many(f)
      THEN {k \in PkSpace : <<inst, k>> \in links}
      ELSE {k \in PkSpace : rows[Model(f)][k].exists}

\* The entities related to root inst through reverse relation f:
\* getattr(instance, field_source) (.all() for a plural relation).
Linked(rows, links, inst, f) ==
    IF many_to_many(f)
      THEN {k \in PkSpace : <<inst, k>> \in links}
      ELSE {k \in PkSpace : rows[Model(f)][k].exists /\ rows[Model(f)][k].owner = inst}

\* getattr(instance, field_source, None) of a reverse one-to-one.
LinkedOne(rows, links, inst, f) ==
    IF Linked(rows, links, inst, f) = {} THEN None
    ELSE CHOOSE k \in Linked(rows, links, inst, f) : TRUE

\* The mapping passed on as submitted, without the linked child's pk.
NoInjectPk(data, linked) == data

\* The one-to-one branch: fill in the pk of the child already linked when
\* the mapping has neither the pk attname nor 'pk'.
InjectPk(data, linked) ==
    LET pk_name == IF data.id = Absent /\ data.pk # Absent THEN "pk" ELSE "id"
    IN IF data[pk_name] = Absent /\ linked # None
         THEN [data EXCEPT ![pk_name] = linked]
         ELSE data

\* The lookup as it would be with the dict keyed by the integer pk: a string
\* key then finds nothing.
InstancesGetByInt(linked, key) == IF key \in linked THEN key ELSE None

\* instances.get(key) on the dict _prefetch_related_instances builds, whose
\* keys are str(pk) of the linked entities.
InstancesGet(linked, key) ==
    IF \E k \in linked : PyStr(k) = key
      THEN CHOOSE k \in linked : PyStr(k) = key
      ELSE None

\* save_kwargs[related_field.name] = instance, unless many-to-many.
SaveOwner(f, inst) == IF many_to_many(f) THEN Absent ELSE inst

\* The mapping left as it was submitted: the saved pk is not recorded in it.
NoWriteBack(data, k) == data

\* data['pk'] = related_instance.pk
WriteBack(data, k) == [data EXCEPT !.pk = k]

RECURSIVE SaveItemsStopAtError(_, _, _, _, _)
\* The loop left at the first mapping that fails validation.
SaveItemsStopAtError(j, f, inst, linked, acc) ==
    IF j > Len(acc.items) \/ ~acc.ok THEN acc
    ELSE LET data == acc.items[j]
             obj == InstancesGet(linked, _get_related_pk(data))
         IN IF ~IsValidFor(data, obj)
              THEN [acc EXCEPT !.errors = Append(@, ErrorDetail(data))]
              ELSE LET r == SerializerSave(acc.st, f, obj, data, SaveOwner(f, inst))
                   IN IF ~r.ok THEN [acc EXCEPT !.ok = FALSE]
                      ELSE SaveItemsStopAtError(j + 1, f, inst, linked,
                             [acc EXCEPT !.st = r.st,
                                         !.items[j] = WriteBack(@, r.pk),
                                         !.new = Append(@, r.pk),
                                         !.errors = Append(@, EmptyDetail)])

RECURSIVE SaveItems(_, _, _, _, _)
\* The loop `for data in related_data` from index j on;
\* acc = [st, items, new, errors, ok].
SaveItems(j, f, inst, linked, acc) ==
    IF j > Len(acc.items) \/ ~acc.ok THEN acc
    ELSE LET data == acc.items[j]
             obj == InstancesGet(linked, _get_related_pk(data))
         IN IF ~IsValidFor(data, obj)
              THEN SaveItems(j + 1, f, inst, linked,
                     [acc EXCEPT !.errors = Append(@, ErrorDetail(data))])
              ELSE LET r == SerializerSave(acc.st, f, obj, data, SaveOwner(f, inst))
                   IN IF ~r.ok THEN [acc EXCEPT !.ok = FALSE]
                      ELSE SaveItems(j + 1, f, inst, linked,
                             [acc EXCEPT !.st = r.st,
                                         !.items[j] = WriteBack(@, r.pk),
                                         !.new = Append(@, r.pk),
                                         !.errors = Append(@, EmptyDetail)])

\* all(errors): the relation fails only when every child failed.
AllErrors(errors) ==
    errors # <<>> /\ \A j \in 1..Len(errors) : errors[j] # EmptyDetail

\* any(errors)
AnyError(errors) == \E j \in 1..Len(errors) : errors[j] # EmptyDetail

Range(q) == {q[j] : j \in 1..Len(q)}

\* m2m_manager.add(*new_related_instances): what was linked stays linked.
ManagerAdd(links, inst, new) == links \cup {<<inst, k>> : k \in Range(new)}

\* m2m_manager.set(new_related_instances)
ManagerSet(links, inst, new) ==
    {l \in links : l[1] # inst} \cup {<<inst, k>> : k \in Range(new)}

\* The error carrying only the details of the children that failed.
ReverseErrorFailedOnly(f, errors) ==
    [field |-> f, list |-> ~one_to_one(f),
     details |-> SelectSeq(errors, LAMBDA e : e # EmptyDetail),
     code |-> "invalid", blockers |-> {}]

\* raise ValidationError({field_name: errors[0]}) for a one-to-one relation,
\* raise ValidationError({field_name: errors}) otherwise.
ReverseError(f, errors) ==
    [field |-> f, list |-> ~one_to_one(f),
     details |-> IF one_to_one(f) THEN <<errors[1]>> ELSE errors,
     code |-> "invalid", blockers |-> {}]

RECURSIVE ReverseFrom(_, _, _, _)
\* The loop over `reverse_relations` from index i on;
\* acc = [st, m2m, initial, status, error].
ReverseFrom(i, revs, inst, acc) ==
    IF i > Len(revs) \/ acc.status # "running" THEN acc
    ELSE LET f == revs[i]
             related_data == acc.initial[f]
         IN IF ~related_data.present \/ related_data.null
              THEN ReverseFrom(i + 1, revs, inst, acc)
              ELSE
         LET items == IF one_to_one(f)
                        THEN <<InjectPk(related_data.items[1],
                                 LinkedOne(acc.st.tbl, acc.m2m, inst, f))>>
                        ELSE related_data.items
             linked == Linked(acc.st.tbl, acc.m2m, inst, f)
             r == SaveItems(1, f, inst, linked,
                    [st |-> acc.st, items |-> items, new |-> <<>>,
                     errors |-> <<>>, ok |-> TRUE])
             saved == [acc EXCEPT !.st = r.st, !.initial[f].items = r.items]
         IN IF _get_save_kwargs(f) # "ok"
              THEN [acc EXCEPT !.initial[f].items = items, !.status = "TypeError"]
            ELSE IF ~r.ok
              THEN [saved EXCEPT !.status = "IntegrityError"]
            ELSE IF AnyError(r.errors)
              THEN [saved EXCEPT
                      !.status = "ValidationError",
                      !.error = ReverseError(f, r.errors)]
            ELSE IF many_to_many(f)
              THEN ReverseFrom(i + 1, revs, inst,
                     [saved EXCEPT !.m2m = ManagerSet(@, inst, r.new),
                                   !.st.trace = Append(@, Event("set", f, None))])
            ELSE ReverseFrom(i + 1, revs, inst, saved)

update_or_create_reverse_relations(inst, revs) ==
    ReverseFrom(1, revs, inst,
        [st |-> [tbl |-> tbl, nextpk |-> nextpk,
                 trace |-> Append(trace, Step("reverse"))],
         m2m |-> m2m, initial |-> initial, status |-> "running",
         error |-> NoError])

\* The deletion step following the reverse relations in create() as well.
AfterReverseDelete(o) == "delete"

\* What follows update_or_create_reverse_relations: create() returns the
\* instance, update() goes on to delete_reverse_relations_if_need.
AfterReverse(o) == IF o = "update" THEN "delete" ELSE "done"

ReverseRelations ==
    /\ pc = "reverse"
    /\ LET r == update_or_create_reverse_relations(instance, reverse_relations) IN
         /\ tbl' = r.st.tbl
         /\ nextpk' = r.st.nextpk
         /\ trace' = r.st.trace
         /\ m2m' = r.m2m
         /\ initial' = r.initial
         /\ pc' = IF r.status = "running" THEN AfterReverse(op) ELSE "done"
         /\ status' = IF r.status = "running" /\ pc' = "done" THEN "ok" ELSE r.status
         /\ error' = r.error
    /\ UNCHANGED <<parent, deps, op, instance, request, validated, relations,
                   reverse_relations, calls, resent, pre, unique, options>>

\* ------------------------------------------- delete_reverse_relations_if_need
\* The relations taken in their declaration order.
NotReversed(q) == q

\* reversed(list(reverse_relations.items()))
Reversed(q) == [j \in 1..Len(q) |-> q[Len(q) + 1 - j]]

\* _extract_related_pks: the string keys of the submitted mappings.
_extract_related_pks(items) == {_get_related_pk(items[j]) : j \in 1..Len(items)}

\* related_value.exclude(pk__in=related_pks)
Exclude(linked, related_pks) ==
    {k \in linked : k \notin {PkOfStr(s) : s \in related_pks \ {None}}}

\* The entities whose PROTECT reference blocks the deletion of rows qs of
\* relation f (ProtectedError.args[1]).
Blockers(f, qs, d) == {x \in d : Model(f) = "Child" /\ x.child \in qs}

RECURSIVE DeleteEvents(_, _, _)
DeleteEvents(name, f, qs) ==
    IF qs = {} THEN <<>>
    ELSE LET k == CHOOSE x \in qs : \A y \in qs : x <= y
         IN <<Event(name, f, k)>> \o DeleteEvents(name, f, qs \ {k})

\* query_set.delete() / related_value.delete(): removes the rows, unless a
\* protected reference blocks one of them, and then removes none.
QuerySetDelete(st, f, qs) ==
    [st EXCEPT !.tbl[Model(f)] = [k \in PkSpace |-> IF k \in qs THEN NoRow ELSE @[k]],
               !.trace = @ \o DeleteEvents("delete", f, qs)]

\* related_value.remove(*list(query_set)): drops the associations only.
ManagerRemove(acc, f, inst, qs) ==
    [acc EXCEPT !.m2m = {l \in @ : ~(l[1] = inst /\ l[2] \in qs)},
                !.st.trace = @ \o DeleteEvents("detach", f, qs)]

\* The one-to-one child kept whatever the payload says.
ToDeleteManyOnly(acc, f, inst) ==
    LET linked == Linked(acc.st.tbl, acc.m2m, inst, f)
    IN IF one_to_one(f) THEN {}
       ELSE Exclude(linked, _extract_related_pks(acc.initial[f].items))

\* The rows the deletion step removes for relation f.
ToDelete(acc, f, inst) ==
    LET related_data == acc.initial[f]
        linked == Linked(acc.st.tbl, acc.m2m, inst, f)
    IN IF one_to_one(f)
         THEN IF related_data.null THEN linked ELSE {}
         ELSE LET related_pks == _extract_related_pks(related_data.items)
                  existing_pks == {PyStr(k) : k \in linked}
              IN IF existing_pks \ related_pks # {}
                   THEN Exclude(linked, related_pks) ELSE {}

\* The protected reference ignored: the deletion step carries on.
ProtectedIgnored(acc, blockers) == acc

\* except ProtectedError: self.fail('cannot_delete_protected', instances=...)
ProtectedFailure(acc, blockers) ==
    [acc EXCEPT !.status = "ValidationError",
                !.error = [field |-> "", list |-> FALSE, details |-> <<>>,
                           code |-> "cannot_delete_protected",
                           blockers |-> blockers]]

RECURSIVE DeleteFrom(_, _, _, _)
\* The loop over the reversed relations from index i on;
\* acc = [st, m2m, initial, status, error].
DeleteFrom(i, revs, inst, acc) ==
    IF i > Len(revs) \/ acc.status # "running" THEN acc
    ELSE LET f == revs[i]
             qs == ToDelete(acc, f, inst)
         IN IF qs = {} THEN DeleteFrom(i + 1, revs, inst, acc)
            ELSE IF many_to_many(f)
              THEN DeleteFrom(i + 1, revs, inst, ManagerRemove(acc, f, inst, qs))
            ELSE IF Blockers(f, qs, deps) # {}
              THEN ProtectedFailure(acc, Blockers(f, qs, deps))
            ELSE DeleteFrom(i + 1, revs, inst,
                   [acc EXCEPT !.st = QuerySetDelete(@, f, qs)])

delete_reverse_relations_if_need(inst, revs) ==
    DeleteFrom(1, Reversed(revs), inst,
        [st |-> [tbl |-> tbl, nextpk |-> nextpk,
                 trace |-> Append(trace, Step("delete"))],
         m2m |-> m2m, initial |-> initial, status |-> "running",
         error |-> NoError])

DeleteRelations ==
    /\ pc = "delete"
    /\ LET r == delete_reverse_relations_if_need(instance, reverse_relations) IN
         /\ tbl' = r.st.tbl
         /\ trace' = r.st.trace
         /\ m2m' = r.m2m
         /\ status' = r.status
         /\ error' = r.error
         /\ pc' = IF r.status = "running" THEN "refresh" ELSE "done"
    /\ UNCHANGED <<parent, deps, nextpk, op, instance, request, initial,
                   validated, relations, reverse_relations, calls, resent, pre, unique, options>>

\* instance.refresh_from_db(); return instance
Refresh ==
    /\ pc = "refresh"
    /\ trace' = Append(trace, Step("refresh"))
    /\ status' = "ok"
    /\ pc' = "done"
    /\ UNCHANGED <<db, op, instance, request, initial, validated, relations,
                   reverse_relations, error, calls, resent, pre, unique, options>>

\* ------------------------------------------------------- UniqueFieldsMixin
\* The validators ModelSerializer builds for the fields of a model whose
\* label is unique.
FieldValidators == [label |-> {"UniqueValidator", "MaxLengthValidator"}]
UFieldNames == <<"label">>

\* get_fields: the UniqueValidators are taken off the fields and the names
\* of the fields that had one are recorded;
\* r = [fields, _unique_fields].
RECURSIVE GetFieldsFrom(_, _)
GetFieldsFrom(i, r) ==
    IF i > Len(UFieldNames) THEN r
    ELSE LET f == UFieldNames[i]
             is_unique == "UniqueValidator" \in FieldValidators[f]
         IN GetFieldsFrom(i + 1,
              IF is_unique
                THEN [fields |-> [r.fields EXCEPT ![f] = @ \ {"UniqueValidator"}],
                      _unique_fields |-> Append(r._unique_fields, f)]
                ELSE r)

get_fields == GetFieldsFrom(1, [fields |-> FieldValidators, _unique_fields |-> <<>>])

\* UniqueValidator(queryset)(value, serializer_field): some row of the
\* queryset other than the serializer's instance holds the value.
UniqueValidatorFails(rows, value, inst) ==
    \E k \in URowSpace : rows[k].exists /\ rows[k].label = value /\ k # inst

\* The field validators that run at validation time, before the save, on a
\* serializer with no instance to exclude.
FieldValidationFails(validators, rows, value) ==
    "UniqueValidator" \in validators /\ UniqueValidatorFails(rows, value, None)

\* The check run with no instance bound: no row is excluded.
ValidateUniqueNoInstance(c, rows) ==
    IF c.partial /\ ~c.present THEN [status |-> "ok", field |-> "", code |-> ""]
    ELSE IF ~c.present THEN [status |-> "KeyError", field |-> "", code |-> ""]
    ELSE IF UniqueValidatorFails(rows, c.label, None)
      THEN [status |-> "ValidationError", field |-> "label", code |-> "unique"]
    ELSE [status |-> "ok", field |-> "", code |-> ""]

\* _validate_unique_fields for the one recorded field: skipped when a
\* partial write leaves the field out, else the validator runs on
\* validated_data[field_name] over Model.objects.all().
_validate_unique_fields(c, rows) ==
    IF get_fields._unique_fields = <<>> THEN [status |-> "ok", field |-> "", code |-> ""]
    ELSE IF c.partial /\ ~c.present THEN [status |-> "ok", field |-> "", code |-> ""]
    ELSE IF ~c.present THEN [status |-> "KeyError", field |-> "", code |-> ""]
    ELSE IF UniqueValidatorFails(rows, c.label, c.instance)
      THEN [status |-> "ValidationError", field |-> "label", code |-> "unique"]
    ELSE [status |-> "ok", field |-> "", code |-> ""]

\* is_valid() then save() of the serializer: the stripped field validators,
\* then create()/update(): _validate_unique_fields, then the row is written.
UniqueSave(c) ==
    LET early == c.present
                 /\ FieldValidationFails(get_fields.fields["label"], unique_rows, c.label)
        v == IF early
               THEN [status |-> "ValidationError", field |-> "label",
                     code |-> "unique_at_validation"]
               ELSE _validate_unique_fields(c, unique_rows)
        k == IF c.op = "create"
               THEN CHOOSE x \in URowSpace :
                      ~unique_rows[x].exists /\ \A y \in URowSpace : y > x => ~unique_rows[y].exists
               ELSE c.instance
    IN /\ ucall' = [c EXCEPT !.n = ucall.n + 1, !.status = v.status,
                             !.field = v.field, !.code = v.code,
                             !.before = unique_rows,
                             !.instance = IF v.status = "ok" THEN k ELSE c.instance]
       /\ unique_rows' =
            IF v.status = "ok" /\ c.present
              THEN [unique_rows EXCEPT ![k] = [exists |-> TRUE, label |-> c.label]]
              ELSE unique_rows
       /\ UNCHANGED nested

\* UniqueFieldsMixin.create
UniqueCreate ==
    /\ ucall.n < MaxUSaves
    /\ \E present \in BOOLEAN, l \in ULabels :
          UniqueSave([NoUCall EXCEPT !.op = "create", !.present = present,
                                     !.label = IF present THEN l ELSE ""])

\* UniqueFieldsMixin.update
UniqueUpdate ==
    /\ ucall.n < MaxUSaves
    /\ \E inst \in {k \in URowSpace : unique_rows[k].exists},
          part \in BOOLEAN, present \in BOOLEAN, l \in ULabels :
          UniqueSave([NoUCall EXCEPT !.op = "update", !.instance = inst,
                                     !.partial = part, !.present = present,
                                     !.label = IF present THEN l ELSE ""])

\* The payload with the attribute left out of every mapping that carries a
\* valid one: what a partial update may submit.
WithoutLabels(p) ==
    [f \in FieldSet |->
        [p[f] EXCEPT !.items =
            [j \in 1..Len(@) |->
                IF IsValid(@[j]) THEN [@[j] EXCEPT !.label = NoLabel] ELSE @[j]]]]

\* save() of a serializer built with partial=True on an existing root, with
\* mappings that carry their attribute or leave it out.
SavePartial ==
    /\ pc = "idle"
    /\ calls = 0
    /\ \E inst \in {1, 3}, p \in Payloads, bare \in BOOLEAN :
          BeginWith("update", inst, IF bare THEN WithoutLabels(p) ELSE p,
                    "first", NoKwargs, TRUE)

NextPartial ==
    \/ SavePartial
    \/ Classify \/ DirectRelations \/ PersistRoot \/ ReverseRelations
    \/ DeleteRelations \/ Refresh

SpecPartial == Init /\ [][NextPartial]_vars

\* save() of a root serializer that declares every field of Fields: a
\* direct one-to-one relation and two nested fields with no schema metadata
\* besides the base fields.
SaveSchema ==
    /\ pc = "idle"
    /\ calls = 0
    /\ \E o \in {"create", "update"}, inst \in {1, 3},
          p \in {[f \in FieldSet |-> q[FieldIndex(f)]] :
                    q \in PayloadsOver(FieldSet, 1, MaxSize - 1)} :
          /\ o = "create" => inst = 1
          /\ \E f \in FieldSet \ BaseFields : p[f].present
          /\ Begin(o, IF o = "create" THEN None ELSE inst, p, "first")

NextSchema ==
    \/ SaveSchema
    \/ Classify \/ DirectRelations \/ PersistRoot \/ ReverseRelations
    \/ DeleteRelations \/ Refresh

SpecSchema == Init /\ [][NextSchema]_vars

\* save(**{field_name: value}) with a keyword argument named after a
\* relation field of the payload: a mapping, None or another value.  The
\* keyword argument counts one towards the size of the call.
SaveWithKwargs ==
    /\ pc = "idle"
    /\ calls = 0
    /\ \E o \in {"create", "update"}, inst \in {1, 3}, p \in Payloads,
          f \in FieldSet, kind \in {"mapping", "null", "other"} :
          /\ p[f].present
          /\ PayloadSize(p) < MaxSize
          /\ o = "create" => inst = 1
          /\ BeginWith(o, IF o = "create" THEN None ELSE inst, p, "first",
                       [field |-> f, kind |-> kind], FALSE)

NextKwargs ==
    \/ SaveWithKwargs
    \/ Classify \/ DirectRelations \/ PersistRoot \/ ReverseRelations
    \/ DeleteRelations \/ Refresh

SpecKwargs == Init /\ [][NextKwargs]_vars

NextUnique == UniqueCreate \/ UniqueUpdate

SpecUnique == Init /\ [][NextUnique]_vars

Next ==
    \/ SaveCreate \/ SaveUpdate \/ SaveAgain \/ SaveAgainSameObject
    \/ Classify \/ DirectRelations \/ PersistRoot \/ ReverseRelations
    \/ DeleteRelations \/ Refresh

Spec == Init /\ [][Next]_vars

\* ================================================================== claims
\* The primary key a submitted mapping carries, as the number it denotes
\* (None when it carries none).
SubmittedKey(d) ==
    IF d.pk # Absent /\ d.pk # None THEN d.pk
    ELSE IF d.id # Absent /\ d.id # None THEN d.id ELSE None

\* The entities related to the root through f when this call started.
PreLinked(f) == Linked(pre.tbl, pre.m2m, instance, f)
NowLinked(f) == Linked(tbl, m2m, instance, f)

\* An update that has returned its instance.
UpdateReturned == pc = "done" /\ status = "ok" /\ op = "update"

\* The label of the last submitted mapping of req that carries key k.
LastLabel(req, k) ==
    LET J == {j \in 1..Len(req) : SubmittedKey(req[j]) = k}
    IN req[CHOOSE j \in J : \A j2 \in J : j2 <= j].label

\* C1: after an update that returns, with a one-to-many relation in the
\* payload, every submitted child whose key matches a child linked before
\* the call is that child, updated in place under the same pk; every other
\* submitted child is a row created under a pk that did not exist; every
\* child linked before whose key is not in the payload is gone; and the
\* children linked to the root are exactly the submitted ones.
C1_ChildrenMatchPayload ==
    (UpdateReturned /\ request["children"].present) =>
        LET req == request["children"].items
            out == initial["children"].items
            rows == tbl["Child"]
        IN /\ Len(out) = Len(req)
           /\ \A j \in 1..Len(req) :
                LET k == SubmittedKey(req[j]) IN
                IF k \in PreLinked("children")
                  THEN /\ out[j].pk = k
                       /\ rows[k] = Row(LastLabel(req, k), instance)
                  ELSE /\ ~pre.tbl["Child"][out[j].pk].exists
                       /\ rows[out[j].pk] = Row(req[j].label, instance)
                       /\ \A j2 \in 1..Len(req) : j2 # j => out[j2].pk # out[j].pk
           /\ \A k \in PreLinked("children") :
                (\A j \in 1..Len(req) : SubmittedKey(req[j]) # k) => ~rows[k].exists
           /\ NowLinked("children") = {out[j].pk : j \in 1..Len(req)}

\* An update that renamed one linked child, created another and deleted a
\* third.
C1_Witness ==
    /\ UpdateReturned /\ request["children"].present
    /\ \E j \in 1..Len(request["children"].items) :
         /\ SubmittedKey(request["children"].items[j]) \in PreLinked("children")
         /\ tbl["Child"][initial["children"].items[j].pk].label = "b"
    /\ \E j \in 1..Len(request["children"].items) :
         /\ SubmittedKey(request["children"].items[j]) = None
         /\ tbl["Child"][initial["children"].items[j].pk].exists
    /\ \E k \in PreLinked("children") : ~tbl["Child"][k].exists

\* The positions of the trace where relation f had a storage operation ev.
Ops(f, ev) == {i \in 1..Len(trace) : trace[i].rel = f /\ trace[i].ev = ev}

\* An update that has returned, of a root that the call before updated with
\* this one-to-many relation in the payload.
SecondUpdate ==
    /\ UpdateReturned
    /\ calls >= 2
    /\ instance \in InitPks
    /\ request["children"].present

NoChildCreatedOrDeleted ==
    /\ Ops("children", "create") = {}
    /\ Ops("children", "delete") = {}
    /\ NowLinked("children") = PreLinked("children")

\* C2 as stated: a second update with an equal payload creates and deletes
\* no child, whether or not the children carry a primary key.
C2_AnyPayloadIdempotent ==
    (SecondUpdate /\ resent = "copy") => NoChildCreatedOrDeleted

\* C2 amended: a second update creates and deletes no child when every
\* child of its payload carries a key matching a linked child, which is the
\* case of the payload object the first update wrote the keys into.
C2_KeyedPayloadIdempotent ==
    (/\ SecondUpdate
     /\ \/ resent = "object"
        \/ \A j \in 1..Len(request["children"].items) :
              SubmittedKey(request["children"].items[j]) \in PreLinked("children"))
    => NoChildCreatedOrDeleted

\* A second update with an equal payload of two keyed children.
C2_Witness ==
    /\ SecondUpdate /\ resent = "copy"
    /\ Len(request["children"].items) = 2
    /\ \A j \in 1..2 :
          SubmittedKey(request["children"].items[j]) \in PreLinked("children")
    /\ Ops("children", "update") # {}

\* The root has been persisted in this call.
RootPersisted == \E i \in 1..Len(trace) : trace[i].ev = "root"
StepTaken(name) == \E i \in 1..Len(trace) : trace[i] = Step(name)

\* An update whose payload carries, for the many-to-one direct relation, a
\* valid mapping with a key other than that of the entity linked to the root.
C3_Case ==
    /\ op = "update" /\ RootPersisted
    /\ request["site"].present /\ ~request["site"].null
    /\ IsValid(request["site"].items[1])
    /\ pre.parent[instance].site # None
    /\ SubmittedKey(request["site"].items[1]) # None
    /\ SubmittedKey(request["site"].items[1]) # pre.parent[instance].site

\* C3: in that case the root refers to a sub-entity created in this call
\* with the submitted attributes, and the entity linked before (like every
\* other entity that existed) is as it was.
C3_MismatchCreatesNew ==
    C3_Case =>
        LET new == parent[instance].site IN
        /\ new # None
        /\ ~pre.tbl["Site"][new].exists
        /\ tbl["Site"][new] = Row(request["site"].items[1].label, None)
        /\ \A k \in PkSpace :
              pre.tbl["Site"][k].exists => tbl["Site"][k] = pre.tbl["Site"][k]

\* The case of C3, with a submitted label other than the linked entity's.
C3_Witness ==
    /\ C3_Case /\ pc = "done" /\ status = "ok"
    /\ request["site"].items[1].label # pre.tbl["Site"][pre.parent[instance].site].label

\* An update of a root with a one-to-one child linked, whose payload carries
\* for that relation a valid mapping with neither 'pk' nor the pk attname,
\* and which has gone through the reverse relations.
C4_Case ==
    /\ op = "update" /\ StepTaken("reverse") /\ pc # "reverse"
    /\ request["profile"].present /\ ~request["profile"].null
    /\ request["profile"].items[1].pk = Absent
    /\ request["profile"].items[1].id = Absent
    /\ IsValid(request["profile"].items[1])
    /\ PreLinked("profile") # {}

\* C4: in that case the linked child was updated in place: no child was
\* created, the root is linked to the same child, which has the submitted
\* attributes.
C4_OneToOneUpdatedInPlace ==
    C4_Case =>
        /\ Ops("profile", "create") = {}
        /\ \A k \in PkSpace : tbl["Profile"][k].exists = pre.tbl["Profile"][k].exists
        /\ NowLinked("profile") = PreLinked("profile")
        /\ \A k \in PreLinked("profile") :
              tbl["Profile"][k] = Row(request["profile"].items[1].label, instance)

C4_Witness == C4_Case /\ pc = "done" /\ status = "ok" /\ calls = 1

\* The linked children the deletion step is to delete (their keys are not
\* in the payload) that a protected reference blocks, once the deletion
\* step has run.
C5_Blocked ==
    IF op = "update" /\ StepTaken("delete") /\ pc # "delete"
         /\ request["children"].present
      THEN {k \in PkSpace :
              /\ \E x \in deps : x.child = k
              /\ k \in PreLinked("children")
              /\ \A j \in 1..Len(initial["children"].items) :
                    initial["children"].items[j].pk # k}
      ELSE {}

\* C5: when a protected reference blocks the deletion of an absent child,
\* the save fails with the cannot_delete_protected validation error listing
\* the blocking entities, and the blocked child is still in storage, still
\* linked to the root, with its dependents.
C5_ProtectedDeletionFails ==
    C5_Blocked # {} =>
        /\ pc = "done"
        /\ status = "ValidationError"
        /\ error.code = "cannot_delete_protected"
        /\ error.blockers = {x \in deps : x.child \in C5_Blocked}
        /\ \A k \in C5_Blocked : tbl["Child"][k].exists
        /\ \A x \in deps : tbl["Child"][x.child].exists

\* A blocked deletion in a payload that also keeps one child.
C5_Witness ==
    /\ C5_Blocked # {}
    /\ Len(request["children"].items) >= 1
    /\ Ops("children", "update") # {}

\* C6: a save of the serializer whose uniqueness check is deferred: an
\* update writing the entity's own current value passes the check and is
\* stored; a create or update writing a value another stored entity holds
\* fails at save time with a validation error keyed by the field, and
\* stores nothing.
C6_DeferredUnique ==
    /\ (/\ ucall.op = "update" /\ ucall.present
        /\ ucall.label = ucall.before[ucall.instance].label)
       => (ucall.status = "ok" /\ unique_rows = ucall.before)
    /\ (/\ ucall.op \in {"create", "update"} /\ ucall.present
        /\ \E k \in URowSpace :
              /\ ucall.before[k].exists /\ ucall.before[k].label = ucall.label
              /\ ~(ucall.op = "update" /\ k = ucall.instance))
       => (/\ ucall.status = "ValidationError"
           /\ ucall.field = "label" /\ ucall.code = "unique"
           /\ unique_rows = ucall.before)

\* An update that wrote the entity's own value, after a save that failed on
\* a value held by another entity.
C6_Witness ==
    /\ ucall.n = 2 /\ ucall.op = "update" /\ ucall.present /\ ~ucall.partial
    /\ ucall.label = ucall.before[ucall.instance].label
    /\ ucall.status = "ok"

\* The positions of the trace where the deletion step removed or detached
\* an entity.
DeletionOps == {i \in 1..Len(trace) : trace[i].ev \in {"delete", "detach"}}

\* C7: the deletion step takes the reverse relations in the reverse of
\* their declaration order: no deletion for a relation declared earlier
\* comes before a deletion for a relation declared later.
C7_DeletionInReverseOrder ==
    \A i, j \in DeletionOps :
        i < j => FieldIndex(trace[i].rel) >= FieldIndex(trace[j].rel)

\* Deletions for two relations in one update.
C7_Witness ==
    /\ pc = "done" /\ status = "ok"
    /\ \E i, j \in DeletionOps : trace[i].rel = "children" /\ trace[j].rel = "profile"

\* An update with the many-to-many relation in the payload whose reverse
\* relations were all saved without error.
C8_Case ==
    /\ op = "update" /\ request["tags"].present
    /\ StepTaken("reverse") /\ pc # "reverse"
    /\ status \in {"running", "ok"}

\* C8: from then on the entities associated with the root are exactly those
\* saved from the payload in this call, and every entity associated before
\* that is no longer associated is still stored as it was.
C8_ManyToManyReplaced ==
    C8_Case =>
        /\ NowLinked("tags") =
              {initial["tags"].items[j].pk : j \in 1..Len(initial["tags"].items)}
        /\ NowLinked("tags") =
              {trace[i].pk : i \in Ops("tags", "create") \cup Ops("tags", "update")}
        /\ \A k \in PreLinked("tags") \ NowLinked("tags") :
              tbl["Tag"][k] = pre.tbl["Tag"][k] /\ tbl["Tag"][k].exists

\* A successful update that kept one tag, added a new one and detached one.
C8_Witness ==
    /\ C8_Case /\ pc = "done" /\ status = "ok"
    /\ PreLinked("tags") \cap NowLinked("tags") # {}
    /\ PreLinked("tags") \ NowLinked("tags") # {}
    /\ NowLinked("tags") \ PreLinked("tags") # {}

\* The first reverse relation of the payload, in declaration order, with a
\* child that fails validation (None when there is none).
HasInvalid(f) ==
    /\ request[f].present /\ ~request[f].null
    /\ \E j \in 1..Len(request[f].items) : ~IsValid(request[f].items[j])
FirstFailing ==
    IF \E i \in 1..Len(reverse_relations) : HasInvalid(reverse_relations[i])
      THEN reverse_relations[
             CHOOSE i \in 1..Len(reverse_relations) :
                /\ HasInvalid(reverse_relations[i])
                /\ \A i2 \in 1..(i - 1) : ~HasInvalid(reverse_relations[i2])]
      ELSE ""

\* The reverse relations have been gone through and a child of one failed
\* validation.
C9_Case ==
    /\ StepTaken("reverse") /\ pc # "reverse"
    /\ status # "IntegrityError"
    /\ FirstFailing # ""

\* C9: the save then fails with a validation error keyed by that relation:
\* for a plural relation one slot per submitted child in payload order, empty
\* for a child that was saved and the child's error detail for one that
\* failed; for a one-to-one relation the child's error detail itself.
C9_ReverseErrorShape ==
    C9_Case =>
        LET f == FirstFailing
            req == request[f].items
        IN /\ pc = "done" /\ status = "ValidationError"
           /\ error.field = f /\ error.code = "invalid"
           /\ IF one_to_one(f)
                THEN ~error.list /\ error.details = <<ErrorDetail(req[1])>>
                ELSE /\ error.list
                     /\ Len(error.details) = Len(req)
                     /\ \A j \in 1..Len(req) :
                           error.details[j] =
                              IF IsValid(req[j]) THEN EmptyDetail
                              ELSE ErrorDetail(req[j])

\* A plural relation whose first child was saved and whose second failed.
C9_Witness ==
    /\ C9_Case /\ ~one_to_one(FirstFailing)
    /\ Len(request[FirstFailing].items) = 2
    /\ IsValid(request[FirstFailing].items[1])
    /\ ~IsValid(request[FirstFailing].items[2])

\* The step of create()/update() an entry of the trace belongs to.
Phase(e) ==
    CASE e = Step("classify") -> 1
      [] e = Step("direct") -> 2
      [] e.ev \in {"create", "update"} /\ e.rel \in Range(relations) -> 2
      [] e.ev = "root" -> 3
      [] e = Step("reverse") -> 4
      [] e.ev \in {"create", "update", "set"} /\ e.rel \in Range(reverse_relations) -> 4
      [] e = Step("delete") -> 5
      [] e.ev \in {"delete", "detach"} -> 5
      [] e = Step("refresh") -> 6

\* C10: in every create and update the steps and their storage operations
\* come in the order classification, direct relations, root, reverse
\* relations, deletion, refresh; the root is persisted with the entity the
\* direct step saved as its foreign key; the reverse children saved refer
\* to the root persisted; a call that returns has taken every step of its
\* kind, and create takes neither the deletion step nor the refresh.  (The
\* order is stated of neighbouring entries of the trace; it is transitive,
\* so it holds of every two entries.)
C10_StepOrder ==
    /\ \A i \in 1..(Len(trace) - 1) :
          LET here == Phase(trace[i])
              next == Phase(trace[i + 1])
          IN here < next \/ (here = next /\ trace[i + 1].ev # "step")
    /\ \A i \in 1..Len(trace) :
          /\ (op = "create" => Phase(trace[i]) <= 4)
          /\ (trace[i].ev = "root" => trace[i].pk = instance)
          /\ (trace[i].ev \in {"create", "update"} /\ Phase(trace[i]) = 2 /\ RootPersisted)
                => parent[instance][trace[i].rel] = trace[i].pk
          /\ (trace[i].ev \in {"create", "update"} /\ Phase(trace[i]) = 4
                /\ ~many_to_many(trace[i].rel))
                => /\ RootPersisted
                   /\ tbl[Model(trace[i].rel)][trace[i].pk].owner = instance
    /\ (pc = "done" /\ status = "ok") =>
          /\ StepTaken("classify") /\ StepTaken("direct") /\ RootPersisted
          /\ StepTaken("reverse")
          /\ StepTaken("delete") = (op = "update")
          /\ StepTaken("refresh") = (op = "update")

\* An update that created a direct sub-entity and a reverse child and
\* deleted a child.
C10_Witness ==
    /\ pc = "done" /\ status = "ok" /\ op = "update"
    /\ \E i \in 1..Len(trace) : Phase(trace[i]) = 2 /\ trace[i].ev = "create"
    /\ \E i \in 1..Len(trace) : Phase(trace[i]) = 4 /\ trace[i].ev = "create"
    /\ DeletionOps # {}

\* The positions of the trace that are storage operations.
StorageOps == {i \in 1..Len(trace) : trace[i].ev # "step"}

\* The save was called with a keyword argument, named after a relation
\* field of the payload, that is not a mapping.
BadKwargs == kwargs.kind \in {"null", "other"}

\* Every relation field of the payload carries valid mappings only.
AllValid ==
    \A f \in FieldSet :
        /\ ~request[f].null
        /\ \A j \in 1..Len(request[f].items) : IsValid(request[f].items[j])

\* The relations of the call's classification that come before f.
Before(rels, f) ==
    {rels[i] : i \in {i \in 1..Len(rels) : \A j \in 1..i : rels[j] # f}}

\* C11 as stated: a call with such a keyword argument, on a payload whose
\* nested mappings are all valid, ends with the TypeError and has created,
\* updated or deleted nothing when it does.
C11_FailsBeforeAnyWrite ==
    (pc = "done" /\ BadKwargs /\ AllValid) =>
        (status = "TypeError" /\ StorageOps = {})

\* The save step of the direct relation the keyword argument names has
\* been reached with a valid mapping.
C11_DirectCase ==
    /\ BadKwargs /\ kwargs.field \in Range(relations)
    /\ StepTaken("direct") /\ pc # "direct"
    /\ ~request[kwargs.field].null
    /\ IsValid(request[kwargs.field].items[1])

\* The save step of the reverse relation the keyword argument names has
\* been reached: its payload is not null and no relation before it failed.
C11_ReverseCase ==
    /\ BadKwargs /\ kwargs.field \in Range(reverse_relations)
    /\ StepTaken("reverse") /\ pc # "reverse"
    /\ ~request[kwargs.field].null
    /\ status # "IntegrityError"
    /\ \A g \in Before(reverse_relations, kwargs.field) : ~HasInvalid(g)

\* C11 amended: when the save step of the relation is reached, the call
\* fails there with the TypeError before any entity of that relation is
\* saved.  For a direct relation nothing at all has been written; for a
\* reverse relation the root has been persisted and stays so.
C11_FailsAtSaveStep ==
    /\ C11_DirectCase =>
          /\ pc = "done" /\ status = "TypeError"
          /\ StorageOps = {}
          /\ parent = pre.parent /\ tbl = pre.tbl /\ m2m = pre.m2m
    /\ C11_ReverseCase =>
          /\ pc = "done" /\ status = "TypeError"
          /\ \A i \in StorageOps : trace[i].rel # kwargs.field
          /\ tbl[Model(kwargs.field)] = pre.tbl[Model(kwargs.field)]
          /\ many_to_many(kwargs.field) => m2m = pre.m2m
          /\ RootPersisted /\ parent[instance].exists

\* The TypeError raised for the one-to-many relation after the root and a
\* one-to-one child were saved.
C11_Witness ==
    /\ C11_ReverseCase /\ kwargs.field = "children"
    /\ status = "TypeError"
    /\ Ops("profile", "create") # {}

\* The relation fields whose schema metadata cannot be resolved: the model
\* has no field named ghost, and none named memo_set or memo.
C12_Unresolved == {"ghost", "memos"}

\* The group classification is to put a resolvable relation field of the
\* payload in ("" for a direct relation submitted as null).
ExpectedGroup(f) ==
    IF f \in {"site", "account"}
      THEN IF request[f].null THEN "" ELSE "direct"
      ELSE "reverse"

C13_NullOrAbsentDeletes ==
    (UpdateReturned /\ (request["profile"].null \/ ~request["profile"].present)) =>
        \A k \in PreLinked("profile") : ~tbl["Profile"][k].exists

\* C13 amended: after an update that returns, a payload value of null has
\* had the linked one-to-one child deleted by the deletion step; with the
\* relation absent from the payload the linked child is never touched.
C13_NullDeletesAbsentKeeps ==
    /\ (UpdateReturned /\ request["profile"].null) =>
          /\ Ops("profile", "create") \cup Ops("profile", "update") = {}
          /\ \A k \in PreLinked("profile") :
                /\ ~tbl["Profile"][k].exists
                /\ \E i \in Ops("profile", "delete") : trace[i].pk = k
    /\ (op = "update" /\ pc # "idle" /\ ~request["profile"].present) =>
          /\ tbl["Profile"] = pre.tbl["Profile"]
          /\ NowLinked("profile") = PreLinked("profile")

\* An update with null for the relation that deleted the linked child and,
\* before it, a child of the one-to-many relation.
C13_Witness ==
    /\ UpdateReturned /\ request["profile"].null
    /\ PreLinked("profile") # {}
    /\ Ops("children", "delete") # {}

\* An update without the relation in its payload, of a root with a
\* one-to-one child linked, that returned.
C13_AbsentWitness ==
    /\ UpdateReturned /\ ~request["profile"].present
    /\ PreLinked("profile") # {}

\* A partial update whose payload leaves out plural relation f.
C14_Case(f) == op = "update" /\ partial /\ pc # "idle" /\ ~request[f].present

\* C14: on a partial update a plural relation absent from the payload is
\* not classified, has no storage operation, and the entities linked through
\* it and their attributes are what they were before the save: the
\* one-to-many children and the many-to-many associations alike.
C14_AbsentPluralUntouched ==
    /\ C14_Case("children") =>
          /\ "children" \notin Range(reverse_relations)
          /\ \A i \in StorageOps : trace[i].rel # "children"
          /\ tbl["Child"] = pre.tbl["Child"]
          /\ NowLinked("children") = PreLinked("children")
    /\ C14_Case("tags") =>
          /\ "tags" \notin Range(reverse_relations)
          /\ \A i \in StorageOps : trace[i].rel # "tags"
          /\ tbl["Tag"] = pre.tbl["Tag"]
          /\ NowLinked("tags") = PreLinked("tags")

\* A partial update that returned, without the one-to-many relation in its
\* payload, of a root with children linked, having replaced its tags and
\* updated its one-to-one child from a mapping with no attribute.
C14_Witness ==
    /\ C14_Case("children") /\ pc = "done" /\ status = "ok"
    /\ PreLinked("children") # {}
    /\ Ops("tags", "set") # {}
    /\ request["profile"].present /\ ~request["profile"].null
    /\ request["profile"].items[1].label = NoLabel

\* The direct relations have been gone through and the mapping submitted
\* for the many-to-one relation fails validation.
C15_Case ==
    /\ StepTaken("direct") /\ pc # "direct"
    /\ "site" \in Range(relations)
    /\ ~IsValidFor(request["site"].items[1],
                   DirectTarget("site", request["site"].items[1],
                                LinkedDirect(pre.parent, instance, "site")))

\* C15: the save has then failed with a validation error keyed by the
\* relation's field name whose value is the nested detail; the root has
\* been neither created nor modified, and no entity of a reverse relation
\* has been created, updated, deleted or detached.
C15_DirectErrorKeyed ==
    C15_Case =>
        /\ pc = "done" /\ status = "ValidationError"
        /\ error.field = "site" /\ ~error.list /\ error.code = "invalid"
        /\ error.details = <<ErrorDetail(request["site"].items[1])>>
        /\ ~RootPersisted
        /\ parent = pre.parent
        /\ StorageOps = {}
        /\ tbl = pre.tbl /\ m2m = pre.m2m

\* An update failing so, with a child to create in the payload and a
\* sub-entity linked to the root.
C15_Witness ==
    /\ C15_Case /\ op = "update"
    /\ pre.parent[instance].site # None
    /\ request["children"].present /\ Len(request["children"].items) = 1

\* A plural reverse relation has failed on a child that did not pass
\* validation.
C16_Case == C9_Case /\ ~one_to_one(FirstFailing) /\ FirstFailing # ""

\* C16: every valid child of that relation, before or after a failing
\* sibling, has been saved: its mapping has the key of a stored entity that
\* a storage operation of this call wrote with the submitted attribute (and,
\* unless many-to-many, the root as its parent); the root persisted in this
\* call is stored; and the call has ended, so that nothing is undone.
C16_SiblingsPersisted ==
    C16_Case =>
        LET f == FirstFailing
            req == request[f].items
            out == initial[f].items
        IN /\ pc = "done" /\ status = "ValidationError"
           /\ RootPersisted /\ parent[instance].exists
           /\ \A j \in 1..Len(req) :
                 IF IsValid(req[j])
                   THEN /\ out[j].pk \in PkSpace
                        /\ tbl[Model(f)][out[j].pk].exists
                        /\ tbl[Model(f)][out[j].pk].label = req[j].label
                        /\ ~many_to_many(f) =>
                              tbl[Model(f)][out[j].pk].owner = instance
                        /\ \E i \in Ops(f, "create") \cup Ops(f, "update") :
                              trace[i].pk = out[j].pk
                   ELSE out[j] = req[j]

\* A one-to-many relation whose first child failed and whose second child
\* was created all the same.
C16_Witness ==
    /\ C16_Case /\ FirstFailing = "children"
    /\ Len(request["children"].items) = 2
    /\ ~IsValid(request["children"].items[1])
    /\ IsValid(request["children"].items[2])
    /\ Ops("children", "create") # {}

\* An update that has persisted the root, whose payload carries for direct
\* relation f a valid mapping with the key of the entity linked to the root.
C17_Case(f) ==
    /\ op = "update" /\ RootPersisted
    /\ request[f].present /\ ~request[f].null
    /\ IsValid(request[f].items[1])
    /\ pre.parent[instance][f] # None
    /\ SubmittedKey(request[f].items[1]) = pre.parent[instance][f]

\* C17: for the many-to-one and for the one-to-one direct relation alike,
\* the linked entity was then the update target: no entity was created for
\* the relation, the linked entity is stored under its key with the
\* submitted attribute, and the root refers to it.
C17_MatchingKeyUpdatesLinked ==
    \A f \in {"site", "account"} :
        C17_Case(f) =>
            LET k == pre.parent[instance][f] IN
            /\ Ops(f, "create") = {}
            /\ \E i \in Ops(f, "update") : trace[i].pk = k
            /\ tbl[Model(f)][k] = Row(request[f].items[1].label, None)
            /\ \A k2 \in PkSpace : tbl[Model(f)][k2].exists = pre.tbl[Model(f)][k2].exists
            /\ parent[instance][f] = k

\* Updates that returned having renamed the linked entity: of the
\* one-to-one relation, and of the many-to-one relation.
C17_Witness ==
    /\ C17_Case("account") /\ pc = "done" /\ status = "ok"
    /\ tbl["Account"][pre.parent[instance].account].label
          # pre.tbl["Account"][pre.parent[instance].account].label

C17_WitnessManyToOne ==
    /\ C17_Case("site") /\ pc = "done" /\ status = "ok"
    /\ tbl["Site"][pre.parent[instance].site].label
          # pre.tbl["Site"][pre.parent[instance].site].label

\* The positions of the trace where the reverse step saved an entity of
\* reverse relation f.
Saved(f) == Ops(f, "create") \cup Ops(f, "update")

\* C18: in an update, no entity the reverse step created is deleted or
\* detached by the deletion step: once the reverse step has gone through
\* without error, the keys the deletion step reads from the mappings of a
\* plural relation include the key of every entity saved for it in this
\* call; no deletion names an entity created in this call; and when the
\* update returns every entity created is stored and linked to the root.
C18_CreatedNeverDeleted ==
    op = "update" =>
        \A f \in Range(reverse_relations) :
            /\ (StepTaken("reverse") /\ pc # "reverse"
                   /\ status \in {"running", "ok"} /\ ~one_to_one(f)) =>
                  \A i \in Saved(f) :
                      PyStr(trace[i].pk) \in _extract_related_pks(initial[f].items)
            /\ \A i \in Ops(f, "create"), j \in DeletionOps :
                  ~(trace[j].rel = f /\ trace[j].pk = trace[i].pk)
            /\ UpdateReturned =>
                  \A i \in Ops(f, "create") :
                      /\ tbl[Model(f)][trace[i].pk].exists
                      /\ trace[i].pk \in NowLinked(f)

\* An update that returned having created one child and deleted another.
C18_Witness ==
    /\ UpdateReturned
    /\ Ops("children", "create") # {}
    /\ Ops("children", "delete") # {}

\* An update whose reverse step has ended on a child that failed validation.
C19_Case == op = "update" /\ C9_Case

\* The reverse relations of the call's classification that come after f.
After(rels, f) == Range(rels) \ (Before(rels, f) \cup {f})

\* C19 as stated: the update then has deleted or detached no entity linked
\* before it through any relation, has reconciled no relation declared
\* after the failing one, and has not reached the deletion step.
C19_NothingDetachedOnFailure ==
    C19_Case =>
        /\ ~StepTaken("delete")
        /\ \A f \in Range(reverse_relations) : PreLinked(f) \subseteq NowLinked(f)
        /\ \A i \in StorageOps : trace[i].rel \notin After(reverse_relations, FirstFailing)

\* C19 amended: the update then has ended without the deletion step: no
\* entity was deleted, every one-to-one and one-to-many child linked before
\* is still linked, and no relation declared after the failing one was
\* reconciled; but a many-to-many relation declared before the failing one
\* has had its associations replaced by the entities saved from the
\* payload, one declared after it has its associations as they were.  The
\* deletion step is reached only when no child failed.
C19_FailureSkipsDeletion ==
    /\ C19_Case =>
          /\ pc = "done" /\ status = "ValidationError"
          /\ ~StepTaken("delete") /\ DeletionOps = {}
          /\ \A t \in Tables, k \in PkSpace : pre.tbl[t][k].exists => tbl[t][k].exists
          /\ \A f \in Range(reverse_relations) :
                ~many_to_many(f) => PreLinked(f) \subseteq NowLinked(f)
          /\ \A i \in StorageOps :
                trace[i].rel \notin After(reverse_relations, FirstFailing)
          /\ IF "tags" \in Before(reverse_relations, FirstFailing)
                THEN NowLinked("tags") = {trace[i].pk : i \in Saved("tags")}
                ELSE m2m = pre.m2m
    /\ StepTaken("delete") => FirstFailing = ""

\* The one-to-many relation of a root with children failed after the
\* many-to-many relation declared before it was replaced, detaching an
\* entity.
C19_Witness ==
    /\ C19_Case /\ FirstFailing = "children"
    /\ PreLinked("tags") \ NowLinked("tags") # {}
    /\ PreLinked("children") # {}

\* The children that were linked to another parent when this call started.
OthersChildren ==
    {k \in PkSpace : /\ pre.tbl["Child"][k].exists
                     /\ pre.tbl["Child"][k].owner # instance}

\* The one-to-many relation has been reconciled in this update.
C20_Reconciled ==
    /\ op = "update" /\ "children" \in Range(reverse_relations)
    /\ StepTaken("reverse") /\ pc # "reverse"
    /\ status # "IntegrityError"
    /\ FirstFailing \in {"", "children"}

\* C20: an update never changes a child linked to another parent: such a
\* child keeps its attributes and its parent and is not deleted; a valid
\* mapping submitted with the key of such a child is saved as a new child of
\* the root; and the deletion step removes children that were linked to the
\* root only.
C20_OtherParentsChildrenUntouched ==
    op = "update" =>
        /\ \A k \in OthersChildren : tbl["Child"][k] = pre.tbl["Child"][k]
        /\ \A i \in StorageOps :
              trace[i].rel = "children" => trace[i].pk \notin OthersChildren
        /\ \A i \in Ops("children", "delete") : trace[i].pk \in PreLinked("children")
        /\ C20_Reconciled =>
              \A j \in 1..Len(request["children"].items) :
                  LET d == request["children"].items[j]
                      new == initial["children"].items[j].pk
                  IN (IsValid(d) /\ SubmittedKey(d) \in OthersChildren) =>
                        /\ new \notin OthersChildren
                        /\ ~pre.tbl["Child"][new].exists
                        /\ \E i \in Ops("children", "create") : trace[i].pk = new
                        /\ tbl["Child"][new] = Row(d.label, instance)

\* An update that returned, submitted with the key of another parent's
\* child, and that deleted a child of the root.
C20_Witness ==
    /\ UpdateReturned /\ C20_Reconciled
    /\ \E j \in 1..Len(request["children"].items) :
          SubmittedKey(request["children"].items[j]) \in OthersChildren
    /\ Ops("children", "delete") # {}

====
